---- MODULE Spec2Model ----
\* Verification model of vot/utilities/attributes.py (the declarative schema /
\* attribute framework) and of its use in vot/stack/__init__.py.
EXTENDS Integers, Sequences, FiniteSets, TLC

\* ---------------------------------------------------------------- bounds
\* Largest number of auxiliary attribute assignments tried on one record.
MaxAssign == 2
\* Largest number of classes defined in the metaclass specification.
MaxClasses == 4

\* ---------------------------------------------------------------- values
\* Python values are tagged pairs.  A text string is a sequence of atoms (a
\* character, or an indivisible word such as a qualified name).
None == <<"none", 0>>
Undefined == <<"undef", 0>>
IntV(n) == <<"int", n>>
BoolV(b) == <<"bool", b>>
StrV(s) == <<"str", s>>
ListV(s) == <<"list", s>>
DictV(f) == <<"dict", f>>
ReadonlyMapping(f) == <<"romap", f>>
FnV(id) == <<"fn", id>>
ObjV(c, attrs) == <<"obj", [cls |-> c, attrs |-> attrs]>>

Tag(v) == v[1]
Val(v) == v[2]
EmptyMap == [k \in {} |-> None]

is_undefined(a) == IF a = None THEN FALSE ELSE a = Undefined

IsMapping(v) == Tag(v) \in {"dict", "romap"}
IsIterable(v) == Tag(v) \in {"str", "list", "dict", "romap"}

\* Iteration order of a mapping's keys: the order of this list.
KeyOrder == <<"a", "b", "c", "d", "m", "n", "x", "y", "z", "k1", "k2", "inc", "inc2",
              "items", "tags", "fn", "cb", "title", "dataset", "deprecated",
              "experiments", "radius", "type", "zz">>

KeysOf(f) == SelectSeq(KeyOrder, LAMBDA k : k \in DOMAIN f)

Restrict(f, S) == [k \in (DOMAIN f) \cap S |-> f[k]]
Update(f, g) == [k \in (DOMAIN f) \cup (DOMAIN g) |-> IF k \in DOMAIN g THEN g[k] ELSE f[k]]
Put(f, k, v) == [j \in (DOMAIN f) \cup {k} |-> IF j = k THEN v ELSE f[j]]

\* ---------------------------------------------------------------- results
\* The outcome of a call: a value, or the exception raised; fx lists, in order,
\* the side effects the call had on the world outside it.
Ok(v, fx) == [ok |-> TRUE, val |-> v, err |-> [kind |-> "", names |-> {}], fx |-> fx]
Raise(kind, names, fx) == [ok |-> FALSE, val |-> None, err |-> [kind |-> kind, names |-> names], fx |-> fx]
NoError == [kind |-> "", names |-> {}]

\* ---------------------------------------------------------------- vot.utilities
DigitChars == <<"0", "1", "2", "3", "4", "5", "6", "7", "8", "9">>
IsDigit(c) == \E i \in 1..10 : DigitChars[i] = c
DigitVal(c) == (CHOOSE i \in 1..10 : DigitChars[i] = c) - 1

RECURSIVE ParseDigits(_, _)
ParseDigits(s, acc) ==
    IF s = <<>> THEN acc ELSE ParseDigits(Tail(s), 10 * acc + DigitVal(Head(s)))

AllDigits(s) == s # <<>> /\ \A i \in 1..Len(s) : IsDigit(s[i])

\* int(text): an optional sign and decimal digits.
ParseInt(s) ==
    IF AllDigits(s) THEN Ok(IntV(ParseDigits(s, 0)), <<>>)
    ELSE IF s # <<>> /\ Head(s) = "-" /\ AllDigits(Tail(s))
         THEN Ok(IntV(0 - ParseDigits(Tail(s), 0)), <<>>)
         ELSE Raise("ValueError", {}, <<>>)

RECURSIVE NatDigits(_)
NatDigits(n) ==
    IF n < 10 THEN <<DigitChars[n + 1]>> ELSE NatDigits(n \div 10) \o <<DigitChars[(n % 10) + 1]>>

IntDigits(n) == IF n < 0 THEN <<"-">> \o NatDigits(0 - n) ELSE NatDigits(n)

to_number(value, max_n, min_n, conversion) ==
    LET r == CASE Tag(value) = "int" -> Ok(value, <<>>)
               [] Tag(value) = "bool" -> Ok(IntV(IF Val(value) THEN 1 ELSE 0), <<>>)
               [] Tag(value) = "str" -> ParseInt(Val(value))
               [] OTHER -> Raise("TypeError", {}, <<>>)
    IN IF ~r.ok THEN r
       ELSE IF min_n # None /\ Val(r.val) < Val(min_n) THEN Raise("ValueError", {}, <<>>)
       ELSE IF max_n # None /\ Val(r.val) > Val(max_n) THEN Raise("ValueError", {}, <<>>)
       ELSE r

to_string(value) ==
    CASE Tag(value) = "str" -> Ok(value, <<>>)
      [] Tag(value) = "int" -> Ok(StrV(IntDigits(Val(value))), <<>>)
      [] Tag(value) = "bool" -> Ok(StrV(IF Val(value) THEN <<"T", "r", "u", "e">>
                                                     ELSE <<"F", "a", "l", "s", "e">>), <<>>)
      [] Tag(value) = "none" -> Ok(StrV(<<"N", "o", "n", "e">>), <<>>)
      [] OTHER -> Raise("ValueError", {}, <<>>)

Truthy == {StrV(<<"t", "r", "u", "e">>), StrV(<<"1">>), IntV(1), BoolV(TRUE)}
Falsy == {StrV(<<"f", "a", "l", "s", "e">>), StrV(<<"0">>), IntV(0), BoolV(FALSE)}

to_logical(value) ==
    IF Tag(value) \notin {"str", "int", "bool"} THEN Raise("ValueError", {}, <<>>)
    ELSE IF value \in Truthy THEN Ok(BoolV(TRUE), <<>>)
    ELSE IF value \in Falsy THEN Ok(BoolV(FALSE), <<>>)
    ELSE Raise("ValueError", {}, <<>>)

\* text.split(sep) for a one-atom separator.
RECURSIVE SplitAt(_, _, _)
SplitAt(s, sep, cur) ==
    IF s = <<>> THEN <<StrV(cur)>>
    ELSE IF Head(s) = sep THEN <<StrV(cur)>> \o SplitAt(Tail(s), sep, <<>>)
    ELSE SplitAt(Tail(s), sep, Append(cur, Head(s)))

Split(s, sep) == SplitAt(s, sep, <<>>)

\* ---------------------------------------------------------------- contexts
\* The context handed to coerce: a dict with some of the keys "parent", "key".
EmptyCtx == [has |-> {}, parent |-> None, key |-> None]
ParentCtx(self) == [has |-> {"parent"}, parent |-> self, key |-> None]
\* dict(key=k, **context): a TypeError when context already carries "key".
KeyClash(ctx) == "key" \in ctx.has
WithKey(ctx, k) == [ctx EXCEPT !.has = @ \cup {"key"}, !.key = k]
IdxKey(i) == <<"idx", i>>
NameKey(k) == <<"name", k>>

\* Side effects: a resolver being called (with what it was handed), and a
\* callable object having its resname attribute set.
ResolveFx(resolver, typename, ctx) ==
    [ev |-> "resolve", who |-> resolver, what |-> typename,
     hasParent |-> "parent" \in ctx.has,
     cls |-> IF "parent" \in ctx.has THEN Val(ctx.parent).cls ELSE "",
     bound |-> IF "parent" \in ctx.has THEN DOMAIN Val(ctx.parent).attrs ELSE {},
     hasKey |-> "key" \in ctx.has, key |-> IF "key" \in ctx.has THEN ctx.key ELSE <<"none", 0>>]
ResnameFx(fn, name) ==
    [ev |-> "resname", who |-> fn, what |-> name,
     hasParent |-> FALSE, cls |-> "", bound |-> {}, hasKey |-> FALSE, key |-> <<"none", 0>>]

\* ---------------------------------------------------------------- descriptors
NoDesc == [kind |-> "none"]
NoClass == [name |-> "", declared |-> <<>>]
DescriptorKinds == {"Attribute", "Number", "Boolean", "String", "List", "Map",
                    "Nested", "Include", "Object", "Callable"}

\* A descriptor object before any __init__ body has run: `has` is the set of
\* instance attributes assigned so far.
Blank(kind) ==
    [kind |-> kind, has |-> {}, default |-> Undefined, acls |-> NoClass,
     required_ |-> FALSE, contains |-> NoDesc, separator |-> "", container |-> "",
     conversion |-> "", val_min |-> None, val_max |-> None, resolver |-> ""]

IsAttribute(v) == v.kind \in DescriptorKinds
IsInclude(d) == d.kind = "Include"

\* Attribute.required, overridden by Nested.required.
AttrRequired(d) == is_undefined(d.default)
Required(d) ==
    IF d.kind \in {"Nested", "Include"} THEN AttrRequired(d) /\ d.required_ ELSE AttrRequired(d)

\* Attribute.default, overridden by Include.default.
Default(d) == IF IsInclude(d) THEN DictV(EmptyMap) ELSE d.default

RECURSIVE Coerce(_, _, _, _)
RECURSIVE New(_, _, _, _)

DefOk(d, fx) == [ok |-> TRUE, d |-> d, err |-> NoError, fx |-> fx]
DefFail(err, fx) == [ok |-> FALSE, d |-> NoDesc, err |-> err, fx |-> fx]

\* Attribute.__init__: the default, when given, is coerced by the descriptor as
\* it is at the moment of the call.
StoreDefault(d, r) ==
    IF r.ok THEN DefOk([d EXCEPT !.default = r.val, !.has = @ \cup {"_default"}], r.fx)
    ELSE DefFail(r.err, r.fx)

AttributeInit(reg, d, default) ==
    IF is_undefined(default) THEN StoreDefault(d, Ok(default, <<>>))
    ELSE StoreDefault(d, Coerce(reg, d, default, EmptyCtx))

NumberInit(reg, conversion, val_min, val_max, default) ==
    AttributeInit(reg, [Blank("Number") EXCEPT !.conversion = conversion, !.val_min = val_min,
                       !.val_max = val_max,
                       !.has = {"_conversion", "_val_min", "_val_max"}], default)

IntegerInit(reg, val_min, val_max, default) == NumberInit(reg, "int", val_min, val_max, default)

BooleanInit(reg, default) == AttributeInit(reg, Blank("Boolean"), default)

StringInit(reg, default) == AttributeInit(reg, Blank("String"), default)

CallableInit(reg, default) == AttributeInit(reg, Blank("Callable"), default)

\* What List.__init__ does after super().__init__(**kwargs) returned r.
ListInitRest(r, contains, separator) ==
    IF ~r.ok THEN r
    ELSE IF ~IsAttribute(contains) THEN DefFail([kind |-> "AssertionError", names |-> {}], r.fx)
    ELSE DefOk([r.d EXCEPT !.separator = separator, !.contains = contains,
                    !.has = @ \cup {"_separator", "_contains"}], r.fx)

ListInit(reg, contains, separator, default) ==
    ListInitRest(AttributeInit(reg, Blank("List"), default), contains, separator)

\* What Map.__init__ does after super().__init__(**kwargs) returned r.
MapInitRest(r, contains) ==
    IF ~r.ok THEN r
    ELSE IF ~IsAttribute(contains) THEN DefFail([kind |-> "AssertionError", names |-> {}], r.fx)
    ELSE DefOk([r.d EXCEPT !.contains = contains, !.container = "dict",
                    !.has = @ \cup {"_contains", "_container"}], r.fx)

MapInit(reg, contains, default) == MapInitRest(AttributeInit(reg, Blank("Map"), default), contains)

\* What Object.__init__ does after super().__init__(**kwargs) returned r.
ObjectInitRest(r, resolver) ==
    IF ~r.ok THEN r
    ELSE DefOk([r.d EXCEPT !.resolver = resolver, !.has = @ \cup {"_resolver"}], r.fx)

ObjectInit(reg, resolver, default) ==
    ObjectInitRest(AttributeInit(reg, Blank("Object"), default), resolver)

\* Nested.__init__; isSchema says whether acls is a subclass of Attributee.
NestedInitAs(reg, kind, acls, isSchema, default) ==
    IF ~isSchema THEN DefFail([kind |-> "AttributeException", names |-> {}], <<>>)
    ELSE AttributeInit(reg, [Blank(kind) EXCEPT !.acls = acls,
               !.required_ = \E i \in 1..Len(acls.declared) : Required(acls.declared[i].d),
               !.has = {"_acls", "_required"}], default)

NestedInit(reg, acls, default) == NestedInitAs(reg, "Nested", acls, TRUE, default)

IncludeInit(reg, acls) == NestedInitAs(reg, "Include", acls, TRUE, Undefined)

\* ---------------------------------------------------------------- AttributeeMeta
Range(s) == {s[i] : i \in 1..Len(s)}
Reverse(s) == [i \in 1..Len(s) |-> s[Len(s) + 1 - i]]
MinOf(S) == CHOOSE x \in S : \A y \in S : x <= y

RECURSIVE Flatten(_)
Flatten(ss) == IF ss = <<>> THEN <<>> ELSE Head(ss) \o Flatten(Tail(ss))

MroFail == "!inconsistent"

\* The merge step of the C3 linearisation that type.__new__ performs.
RECURSIVE C3Merge(_)
C3Merge(seqs) ==
    LET ne == SelectSeq(seqs, LAMBDA s : s # <<>>)
    IN IF ne = <<>> THEN <<>>
       ELSE LET cands == {i \in 1..Len(ne) :
                             \A j \in 1..Len(ne) : Head(ne[i]) \notin Range(Tail(ne[j]))}
            IN IF cands = {} THEN <<MroFail>>
               ELSE LET h == Head(ne[MinOf(cands)])
                    IN <<h>> \o C3Merge([k \in 1..Len(ne) |->
                                            IF Head(ne[k]) = h THEN Tail(ne[k]) ELSE ne[k]])

\* inspect.getmro of a class about to be created with these bases.
getmro(tbl, name, bases) ==
    <<name>> \o C3Merge([i \in 1..Len(bases) |-> tbl[bases[i]].mro] \o <<bases>>)

MroOk(tbl, name, bases) ==
    /\ \A i, j \in 1..Len(bases) : i # j => bases[i] # bases[j]
    /\ MroFail \notin Range(getmro(tbl, name, bases))

\* AttributeeMeta._get_fields: the (name, value) pairs whose value is a descriptor.
get_fields(attrs) == SelectSeq(attrs, LAMBDA a : IsAttribute(a.d))

\* getattr(base, "_declared_attributes", base.__dict__)
DeclaredOrDict(k) == IF k.schema THEN k.declared ELSE k.dict

\* AttributeeMeta._get_fields_by_mro: the parents' fields, last of the MRO first.
get_fields_by_mro(tbl, mro) ==
    LET bases == Reverse(Tail(mro))
    IN Flatten([i \in 1..Len(bases) |-> get_fields(DeclaredOrDict(tbl[bases[i]]))])

\* dict(pairs): a key keeps the position of its first pair and the value of its last.
RECURSIVE DictOfPairs(_, _)
DictOfPairs(pairs, acc) ==
    IF pairs = <<>> THEN acc
    ELSE LET p == Head(pairs)
         IN IF \E i \in 1..Len(acc) : acc[i].name = p.name
            THEN DictOfPairs(Tail(pairs),
                     [i \in 1..Len(acc) |-> IF acc[i].name = p.name THEN p ELSE acc[i]])
            ELSE DictOfPairs(Tail(pairs), Append(acc, p))

\* AttributeeMeta.__new__: the class record of `class name(bases): attrs`.
MetaNew(tbl, name, bases, attrs) ==
    LET cls_attributes == get_fields(attrs)
        mro == getmro(tbl, name, bases)
        inherited_attributes == get_fields_by_mro(tbl, mro)
    IN [name |-> name, bases |-> bases, mro |-> mro, schema |-> TRUE,
        dict |-> SelectSeq(attrs, LAMBDA a : ~IsAttribute(a.d)),
        declared |-> DictOfPairs(inherited_attributes \o cls_attributes, <<>>)]

\* type.__new__ for a class none of whose bases is a schema type.
PlainNew(tbl, name, bases, attrs) ==
    [name |-> name, bases |-> bases, mro |-> getmro(tbl, name, bases), schema |-> FALSE,
     dict |-> attrs, declared |-> <<>>]

\* `class name(bases): attrs` : the metaclass is inherited from the bases.
ClassStatement(tbl, name, bases, attrs) ==
    IF \E i \in 1..Len(bases) : tbl[bases[i]].schema
    THEN MetaNew(tbl, name, bases, attrs)
    ELSE PlainNew(tbl, name, bases, attrs)

ObjectClass ==
    [name |-> "object", bases |-> <<>>, mro |-> <<"object">>, schema |-> FALSE,
     dict |-> <<>>, declared |-> <<>>]

\* class Attributee(metaclass=AttributeeMeta)
AttributeeClass == MetaNew("object" :> ObjectClass, "Attributee", <<"object">>, <<>>)

BaseTable == ("object" :> ObjectClass) @@ ("Attributee" :> AttributeeClass)

Field(name, init) == [name |-> name, d |-> init.d]
Schema(tbl, name, base, attrs) == MetaNew(tbl, name, <<base>>, attrs)

\* ---------------------------------------------------------------- schema types
\* The schema types the engine is exercised on: the repository's Stack, the
\* types of the specification's scenarios, and one type per composition.
NoMin == None
NoMax == None

K_Point ==
    Schema(BaseTable, "Point", "Attributee",
        <<Field("x", IntegerInit(BaseTable, NoMin, NoMax, Undefined)),
          Field("y", IntegerInit(BaseTable, NoMin, NoMax, IntV(0)))>>)

K_Circle ==
    Schema(BaseTable, "Circle", "Attributee",
        <<Field("radius", IntegerInit(BaseTable, IntV(0), IntV(10), Undefined))>>)

\* vot.experiment.Experiment and one concrete experiment type.

K_Experiment == Schema(BaseTable, "Experiment", "Attributee", <<>>)

K_Supervised ==
    Schema(BaseTable @@ ("Experiment" :> K_Experiment), "Supervised", "Experiment",
        <<Field("x", IntegerInit(BaseTable, NoMin, NoMax, IntV(1)))>>)

\* The classes import_class can return: they are importable while every other
\* class body runs.
ImportTable ==
    BaseTable @@ ("Point" :> K_Point) @@ ("Circle" :> K_Circle)
      @@ ("Experiment" :> K_Experiment) @@ ("Supervised" :> K_Supervised)

K_Derived ==
    Schema(ImportTable, "Derived", "Point",
        <<Field("y", StringInit(ImportTable, Undefined)),
          Field("z", IntegerInit(ImportTable, NoMin, NoMax, StrV(<<"3">>)))>>)

K_Sub ==
    Schema(BaseTable, "Sub", "Attributee",
        <<Field("b", StringInit(ImportTable, Undefined)), Field("c", StringInit(ImportTable, StrV(<<>>)))>>)

K_Owner ==
    Schema(BaseTable, "Owner", "Attributee",
        <<Field("a", StringInit(ImportTable, Undefined)), Field("inc", IncludeInit(ImportTable, K_Sub))>>)

K_OwnerFlat ==
    Schema(BaseTable, "OwnerFlat", "Attributee",
        <<Field("a", StringInit(ImportTable, Undefined)), Field("b", StringInit(ImportTable, Undefined)),
          Field("c", StringInit(ImportTable, StrV(<<>>)))>>)

K_Deep ==
    Schema(BaseTable, "Deep", "Attributee",
        <<Field("d", IntegerInit(ImportTable, NoMin, NoMax, Undefined))>>)

K_Mid ==
    Schema(BaseTable, "Mid", "Attributee",
        <<Field("inc2", IncludeInit(ImportTable, K_Deep)), Field("m", StringInit(ImportTable, StrV(<<"m">>)))>>)

K_Outer ==
    Schema(BaseTable, "Outer", "Attributee",
        <<Field("inc", IncludeInit(ImportTable, K_Mid)), Field("a", BooleanInit(ImportTable, BoolV(FALSE)))>>)

K_OuterFlat ==
    Schema(BaseTable, "OuterFlat", "Attributee",
        <<Field("d", IntegerInit(ImportTable, NoMin, NoMax, Undefined)),
          Field("m", StringInit(ImportTable, StrV(<<"m">>))), Field("a", BooleanInit(ImportTable, BoolV(FALSE)))>>)

K_Opt ==
    Schema(BaseTable, "Opt", "Attributee", <<Field("b", StringInit(ImportTable, StrV(<<>>)))>>)

K_Holder ==
    Schema(BaseTable, "Holder", "Attributee",
        <<Field("n", NestedInit(ImportTable, K_Opt, Undefined)), Field("m", NestedInit(ImportTable, K_Point, Undefined))>>)

K_Wrap ==
    Schema(BaseTable, "Wrap", "Attributee",
        <<Field("n", NestedInit(ImportTable, K_Opt, DictV(EmptyMap))), Field("x", IntegerInit(ImportTable, NoMin, NoMax, IntV(1)))>>)

K_Defaults ==
    Schema(BaseTable, "Defaults", "Attributee",
        <<Field("n", NestedInit(ImportTable, K_Opt, None)),
          Field("tags", ListInit(ImportTable, StringInit(ImportTable, Undefined).d, ",", ListV(<<>>))),
          Field("cb", CallableInit(ImportTable, StrV(<<"pkg.f">>))),
          Field("deprecated", BooleanInit(ImportTable, StrV(<<"0">>)))>>)

K_Bag ==
    Schema(BaseTable, "Bag", "Attributee",
        <<Field("items", ListInit(ImportTable, IntegerInit(ImportTable, NoMin, NoMax, Undefined).d, ",", Undefined)),
          Field("fn", CallableInit(ImportTable, Undefined))>>)

K_Canvas ==
    Schema(BaseTable, "Canvas", "Attributee",
        <<Field("title", StringInit(ImportTable, StrV(<<>>))), Field("m", ObjectInit(ImportTable, "default_object_resolver", Undefined))>>)

\* Containers of containers, and a List of Object fields.
K_Grid ==
    Schema(BaseTable, "Grid", "Attributee",
        <<Field("rows",
                ListInit(ImportTable,
                         ListInit(ImportTable, IntegerInit(ImportTable, NoMin, NoMax, Undefined).d,
                                  ",", Undefined).d,
                         ",", ListV(<<>>))),
          Field("shapes",
                ListInit(ImportTable, ObjectInit(ImportTable, "default_object_resolver", Undefined).d,
                         ",", ListV(<<>>))),
          Field("cells",
                MapInit(ImportTable,
                        MapInit(ImportTable, IntegerInit(ImportTable, NoMin, NoMax, Undefined).d,
                                Undefined).d,
                        Undefined)),
          Field("lm",
                MapInit(ImportTable,
                        ListInit(ImportTable, IntegerInit(ImportTable, NoMin, NoMax, Undefined).d,
                                 ",", Undefined).d,
                        Undefined))>>)

\* Two Callable fields of one record.
K_Hooks ==
    Schema(BaseTable, "Hooks", "Attributee",
        <<Field("first", CallableInit(ImportTable, Undefined)),
          Field("second", CallableInit(ImportTable, Undefined))>>)

K_Stack ==
    Schema(BaseTable, "Stack", "Attributee",
        <<Field("title", StringInit(ImportTable, Undefined)),
          Field("dataset", StringInit(ImportTable, StrV(<<>>))),
          Field("deprecated", BooleanInit(ImportTable, BoolV(FALSE))),
          Field("experiments",
                MapInit(ImportTable, ObjectInit(ImportTable, "experiment_resolver", Undefined).d, Undefined))>>)

Registry ==
    BaseTable @@ ("Point" :> K_Point) @@ ("Derived" :> K_Derived) @@ ("Sub" :> K_Sub)
      @@ ("Owner" :> K_Owner) @@ ("OwnerFlat" :> K_OwnerFlat) @@ ("Deep" :> K_Deep)
      @@ ("Mid" :> K_Mid) @@ ("Outer" :> K_Outer) @@ ("OuterFlat" :> K_OuterFlat)
      @@ ("Opt" :> K_Opt) @@ ("Holder" :> K_Holder) @@ ("Wrap" :> K_Wrap)
      @@ ("Defaults" :> K_Defaults) @@ ("Bag" :> K_Bag) @@ ("Circle" :> K_Circle)
      @@ ("Canvas" :> K_Canvas) @@ ("Experiment" :> K_Experiment)
      @@ ("Supervised" :> K_Supervised) @@ ("Stack" :> K_Stack)
      @@ ("Grid" :> K_Grid) @@ ("Hooks" :> K_Hooks)

\* ---------------------------------------------------------------- registry
\* vot.utilities.import_class: qualified names to classes and functions; a name
\* is also looked up below each hint.
Importable ==
    ("shapes.Circle" :> "Circle") @@ ("vot.experiment.Supervised" :> "Supervised")
      @@ ("shapes.Point" :> "Point")

Functions == ("pkg.f" :> "f") @@ ("alias.f" :> "f") @@ ("pkg.g" :> "g")

HintedNames(hints) == IF "vot.experiment" \in hints THEN ("Supervised" :> "Supervised") ELSE <<>>

\* import_class(name, hints): the class (or "" when the import fails).
import_class(typename, hints) ==
    IF Tag(typename) # "str" \/ Len(Val(typename)) # 1 THEN ""
    ELSE LET n == Val(typename)[1]
         IN IF n \in DOMAIN Importable THEN Importable[n]
            ELSE IF n \in DOMAIN HintedNames(hints) THEN HintedNames(hints)[n]
            ELSE ""

import_function(name) ==
    IF Tag(name) # "str" \/ Len(Val(name)) # 1 THEN ""
    ELSE IF Val(name)[1] \in DOMAIN Functions THEN Functions[Val(name)[1]] ELSE ""

\* class_fullname(obj) / class_string(cls): the qualified name.
class_fullname(c) ==
    StrV(<<CHOOSE n \in DOMAIN Importable : Importable[n] = c>>)

function_fullname(f) == StrV(<<CHOOSE n \in {"pkg.f", "pkg.g"} : Functions[n] = f>>)

issubclass(reg, c, base) == c \in DOMAIN reg /\ base \in Range(reg[c].mro)

\* ---------------------------------------------------------------- coercion
\* The items List.coerce enumerates.
ListItems(d, value) ==
    CASE Tag(value) = "str" -> Split(Val(value), d.separator)
      [] Tag(value) = "dict" -> [i \in 1..Len(KeysOf(Val(value))) |-> Val(value)[KeysOf(Val(value))[i]]]
      [] Tag(value) = "romap" -> [i \in 1..Len(KeysOf(Val(value))) |-> StrV(<<KeysOf(Val(value))[i]>>)]
      [] OTHER -> Val(value)

\* [contains.coerce(x, dict(key=i, **context)) for i, x in enumerate(items)],
\* from item i on, given the items coerced so far.
RECURSIVE CoerceItems(_, _, _, _, _, _, _)
ItemCoerced(reg, contains, items, ctx, i, done, fx, r) ==
    IF ~r.ok THEN Raise(r.err.kind, r.err.names, fx \o r.fx)
    ELSE CoerceItems(reg, contains, items, ctx, i + 1, Append(done, r.val), fx \o r.fx)

CoerceItems(reg, contains, items, ctx, i, done, fx) ==
    IF i > Len(items) THEN Ok(ListV(done), fx)
    ELSE IF KeyClash(ctx) THEN Raise("TypeError", {}, fx)
    ELSE ItemCoerced(reg, contains, items, ctx, i, done, fx,
                     Coerce(reg, contains, items[i], WithKey(ctx, IdxKey(i - 1))))

\* The loop of Map.coerce over value.items(), from the i-th key on.
RECURSIVE CoerceEntries(_, _, _, _, _, _, _)
EntryCoerced(reg, contains, value, ctx, i, container, fx, name, r) ==
    IF ~r.ok THEN Raise(r.err.kind, r.err.names, fx \o r.fx)
    ELSE CoerceEntries(reg, contains, value, ctx, i + 1, Put(container, name, r.val), fx \o r.fx)

CoerceEntry(reg, contains, value, ctx, i, container, fx, name) ==
    EntryCoerced(reg, contains, value, ctx, i, container, fx, name,
                 Coerce(reg, contains, value[name], WithKey(ctx, NameKey(name))))

CoerceEntries(reg, contains, value, ctx, i, container, fx) ==
    IF i > Len(KeysOf(value)) THEN Ok(ReadonlyMapping(container), fx)
    ELSE IF KeyClash(ctx) THEN Raise("TypeError", {}, fx)
    ELSE CoerceEntry(reg, contains, value, ctx, i, container, fx, KeysOf(value)[i])

ListCoerce(reg, d, value, ctx) ==
    IF Tag(value) = "str" /\ "_separator" \notin d.has THEN Raise("AttributeError", {}, <<>>)
    ELSE IF ~IsIterable(value) THEN Raise("AttributeException", {}, <<>>)
    ELSE IF ListItems(d, value) = <<>> THEN Ok(ListV(<<>>), <<>>)
    ELSE IF "_contains" \notin d.has THEN Raise("AttributeError", {}, <<>>)
    ELSE CoerceItems(reg, d.contains, ListItems(d, value), ctx, 1, <<>>, <<>>)

MapCoerce(reg, d, value, ctx) ==
    IF ~IsMapping(value) THEN Raise("AttributeException", {}, <<>>)
    ELSE IF "_container" \notin d.has THEN Raise("AttributeError", {}, <<>>)
    ELSE IF DOMAIN Val(value) = {} THEN Ok(ReadonlyMapping(EmptyMap), <<>>)
    ELSE IF "_contains" \notin d.has THEN Raise("AttributeError", {}, <<>>)
    ELSE CoerceEntries(reg, d.contains, Val(value), ctx, 1, EmptyMap, <<>>)

NestedCoerce(reg, d, value) ==
    IF value = None THEN Ok(None, <<>>)
    ELSE IF is_undefined(value) THEN Ok(value, <<>>)
    ELSE IF ~IsMapping(value) THEN Raise("AssertionError", {}, <<>>)
    ELSE New(reg, d.acls, Val(value), EmptyMap)

Storage == <<"storage", 0>>
Workspace == <<"workspace", 0>>

\* default_object_resolver(typename, _, **kwargs)
\* The outcome r of a call, with the side effects fx that came before it.
After(fx, r) == [r EXCEPT !.fx = fx \o @]

default_object_resolver(reg, typename, ctx, kwargs) ==
    LET clstype == import_class(typename, {})
        fx == <<ResolveFx("default_object_resolver", typename, ctx)>>
    IN IF clstype = "" THEN Raise("ImportError", {}, fx)
       ELSE IF ~issubclass(reg, clstype, "Attributee") THEN Raise("AssertionError", {}, fx)
       ELSE After(fx, New(reg, reg[clstype], kwargs, EmptyMap))

\* experiment_resolver(typename, context, **kwargs) of vot.stack
experiment_resolver(reg, typename, ctx, kwargs) ==
    LET experiment_class == import_class(typename, {"vot.experiment"})
        fx == <<ResolveFx("experiment_resolver", typename, ctx)>>
        identifier == IF "key" \in ctx.has THEN ctx.key ELSE None
    IN IF experiment_class = "" THEN Raise("ImportError", {}, fx)
       ELSE IF ~issubclass(reg, experiment_class, "Experiment") THEN Raise("AssertionError", {}, fx)
       ELSE IF "parent" \in ctx.has /\ "_workspace" \notin DOMAIN Val(ctx.parent).attrs
            THEN Raise("AttributeError", {}, fx)
       ELSE LET storage == IF "parent" \in ctx.has THEN Storage ELSE None
            IN After(fx, New(reg, reg[experiment_class], kwargs,
                             ("_identifier" :> identifier) @@ ("_storage" :> storage)))

ObjectCoerce(reg, d, value, ctx) ==
    IF Tag(value) # "dict" THEN Raise("AssertionError", {}, <<>>)
    ELSE IF "_resolver" \notin d.has THEN Raise("AttributeError", {}, <<>>)
    ELSE LET class_name == IF "type" \in DOMAIN Val(value) THEN Val(value)["type"] ELSE None
             kwargs == Restrict(Val(value), DOMAIN Val(value) \ {"type"})
         IN IF d.resolver = "experiment_resolver"
            THEN experiment_resolver(reg, class_name, ctx, kwargs)
            ELSE default_object_resolver(reg, class_name, ctx, kwargs)

CallableCoerce(d, value) ==
    IF Tag(value) = "fn" THEN Ok(value, <<>>)
    ELSE IF Tag(value) # "str" THEN Raise("AssertionError", {}, <<>>)
    ELSE IF import_function(value) = "" THEN Raise("ImportError", {}, <<>>)
    ELSE Ok(FnV(import_function(value)), <<ResnameFx(import_function(value), value)>>)

\* descriptor.coerce(value, context)
Coerce(reg, d, value, ctx) ==
    CASE d.kind = "Attribute" -> Ok(value, <<>>)
      [] d.kind = "Number" -> to_number(value, d.val_max, d.val_min, d.conversion)
      [] d.kind = "Boolean" -> to_logical(value)
      [] d.kind = "String" -> to_string(value)
      [] d.kind = "List" -> ListCoerce(reg, d, value, ctx)
      [] d.kind = "Map" -> MapCoerce(reg, d, value, ctx)
      [] d.kind \in {"Nested", "Include"} -> NestedCoerce(reg, d, value)
      [] d.kind = "Object" -> ObjectCoerce(reg, d, value, ctx)
      [] d.kind = "Callable" -> CallableCoerce(d, value)

\* ---------------------------------------------------------------- Attributee.__init__
\* Include.filter(**kwargs)
RECURSIVE filter(_, _)
RECURSIVE FilterFrom(_, _, _, _)
FilterFrom(attributes, kwargs, i, filtered) ==
    IF i > Len(attributes) THEN filtered
    ELSE LET aname == attributes[i].name
             afield == attributes[i].d
         IN IF IsInclude(afield)
            THEN FilterFrom(attributes, kwargs, i + 1, Update(filtered, filter(afield, kwargs)))
            ELSE IF aname \in DOMAIN kwargs
            THEN FilterFrom(attributes, kwargs, i + 1, Put(filtered, aname, kwargs[aname]))
            ELSE FilterFrom(attributes, kwargs, i + 1, filtered)

filter(d, kwargs) == FilterFrom(d.acls.declared, kwargs, 1, EmptyMap)

\* The state of a running __init__: the instance's attributes, the two sets, and
\* the side effects so far.
Begin(klass, kwargs, pre) ==
    [attrs |-> pre, unconsumed |-> DOMAIN kwargs,
     unspecified |-> {klass.declared[i].name : i \in 1..Len(klass.declared)},
     fx |-> <<>>, err |-> NoError]

\* Claim without the difference_update of the keys an Include consumed.
ClaimOwnName(st, aname, value, keys, fx) ==
    [st EXCEPT !.attrs = Put(@, aname, value),
               !.unconsumed = @ \ {aname},
               !.unspecified = @ \ {aname},
               !.fx = @ \o fx]

\* super().__setattr__(aname, value) and the difference_updates of one field.
Claim(st, aname, value, keys, fx) ==
    [st EXCEPT !.attrs = Put(@, aname, value),
               !.unconsumed = (@ \ keys) \ {aname},
               !.unspecified = (@ \ keys) \ {aname},
               !.fx = @ \o fx]

\* One iteration of the loop over attributes.items(): field i.
\* super().__setattr__(aname, r) and the two difference_updates, when the
\* coercion returned; its exception otherwise.
Bind(st, aname, keys, r) ==
    IF r.ok THEN Claim(st, aname, r.val, keys, r.fx)
    ELSE [st EXCEPT !.err = r.err, !.fx = @ \o r.fx]

\* The value a field that is no Include is coerced from.
Supplied(kwargs, aname, afield) ==
    IF aname \notin DOMAIN kwargs THEN Default(afield) ELSE kwargs[aname]

IncludeStep(reg, st, aname, afield, iargs, ctx) ==
    Bind(st, aname, DOMAIN iargs, Coerce(reg, afield, DictV(iargs), ctx))

FieldStep(reg, klass, kwargs, st, i) ==
    LET aname == klass.declared[i].name
        afield == klass.declared[i].d
        ctx == ParentCtx(ObjV(klass.name, st.attrs))
    IN IF IsInclude(afield) THEN IncludeStep(reg, st, aname, afield, filter(afield, kwargs), ctx)
       ELSE IF aname \notin DOMAIN kwargs /\ Required(afield) THEN st
       ELSE Bind(st, aname, {}, Coerce(reg, afield, Supplied(kwargs, aname, afield), ctx))

\* Checks with the two tests in the other order.
ChecksUnsupportedFirst(st) ==
    IF st.unconsumed # {} THEN [kind |-> "UnsupportedArguments", names |-> st.unconsumed]
    ELSE IF st.unspecified # {} THEN [kind |-> "MissingArguments", names |-> st.unspecified]
    ELSE NoError

\* The two checks after the loop.
Checks(st) ==
    IF st.unspecified # {} THEN [kind |-> "MissingArguments", names |-> st.unspecified]
    ELSE IF st.unconsumed # {} THEN [kind |-> "UnsupportedArguments", names |-> st.unconsumed]
    ELSE NoError

RECURSIVE InitFrom(_, _, _, _, _)
InitFrom(reg, klass, kwargs, st, i) ==
    IF st.err # NoError THEN st
    ELSE IF i > Len(klass.declared) THEN [st EXCEPT !.err = Checks(st)]
    ELSE InitFrom(reg, klass, kwargs, FieldStep(reg, klass, kwargs, st, i), i + 1)

\* klass(**kwargs); pre holds what the subclass __init__ assigns before it calls
\* Attributee.__init__.
\* Outcome that returns the record whatever __init__ raised.
OutcomeAlways(klass, st) == Ok(ObjV(klass.name, st.attrs), st.fx)

Outcome(klass, st) ==
    IF st.err = NoError THEN Ok(ObjV(klass.name, st.attrs), st.fx)
    ELSE Raise(st.err.kind, st.err.names, st.fx)

New(reg, klass, kwargs, pre) ==
    Outcome(klass, InitFrom(reg, klass, kwargs, Begin(klass, kwargs, pre), 1))

\* ---------------------------------------------------------------- dump
RECURSIVE Dump(_, _, _, _)
RECURSIVE DumpObj(_, _, _)

\* [contains.dump(x) for x in value]
RECURSIVE DumpItems(_, _, _, _, _, _)
ItemDumped(reg, contains, items, rn, i, done, r) ==
    IF ~r.ok THEN r ELSE DumpItems(reg, contains, items, rn, i + 1, Append(done, r.val))

DumpItems(reg, contains, items, rn, i, done) ==
    IF i > Len(items) THEN Ok(ListV(done), <<>>)
    ELSE ItemDumped(reg, contains, items, rn, i, done, Dump(reg, contains, items[i], rn))

\* {k: contains.dump(v) for k, v in value.items()}
RECURSIVE DumpEntries(_, _, _, _, _, _)
EntryDumped(reg, contains, value, rn, i, done, r) ==
    IF ~r.ok THEN r
    ELSE DumpEntries(reg, contains, value, rn, i + 1, Put(done, KeysOf(value)[i], r.val))

DumpEntries(reg, contains, value, rn, i, done) ==
    IF i > Len(KeysOf(value)) THEN Ok(DictV(done), <<>>)
    ELSE EntryDumped(reg, contains, value, rn, i, done,
                     Dump(reg, contains, value[KeysOf(value)[i]], rn))

\* value.dump() for whatever value is.
ValueDump(reg, value, rn) ==
    IF Tag(value) = "obj" THEN DumpObj(reg, value, rn) ELSE Raise("AttributeError", {}, <<>>)

NestedDump(reg, value, rn) == IF value = None THEN Ok(None, <<>>) ELSE ValueDump(reg, value, rn)

ListDump(reg, d, value, rn) ==
    IF Tag(value) = "list" THEN DumpItems(reg, d.contains, Val(value), rn, 1, <<>>)
    ELSE Raise("TypeError", {}, <<>>)

MapDump(reg, d, value, rn) ==
    IF IsMapping(value) THEN DumpEntries(reg, d.contains, Val(value), rn, 1, EmptyMap)
    ELSE Raise("AttributeError", {}, <<>>)

AddType(value, data) ==
    IF ~data.ok THEN data
    ELSE Ok(DictV(Put(Val(data.val), "type", class_fullname(Val(value).cls))), <<>>)

ObjectDump(reg, value, rn) == AddType(value, ValueDump(reg, value, rn))

CallableDump(value, rn) ==
    IF Tag(value) # "fn" THEN Raise("AttributeError", {}, <<>>)
    ELSE IF rn[Val(value)] # None THEN Ok(rn[Val(value)], <<>>)
    ELSE Ok(function_fullname(Val(value)), <<>>)

\* descriptor.dump(value); rn gives each callable object's resname attribute.
Dump(reg, d, value, rn) ==
    CASE d.kind \in {"Attribute", "Number", "Boolean", "String"} -> Ok(value, <<>>)
      [] d.kind \in {"Nested", "Include"} -> NestedDump(reg, value, rn)
      [] d.kind = "List" -> ListDump(reg, d, value, rn)
      [] d.kind = "Map" -> MapDump(reg, d, value, rn)
      [] d.kind = "Object" -> ObjectDump(reg, value, rn)
      [] d.kind = "Callable" -> CallableDump(value, rn)

\* The loop of Attributee.dump, from field i on.
RECURSIVE DumpFrom(_, _, _, _, _, _)
\* serialized.update(r) for an Include, serialized[aname] = r otherwise.
Serialize(serialized, aname, afield, r) ==
    IF IsInclude(afield) THEN Update(serialized, Val(r.val)) ELSE Put(serialized, aname, r.val)

FieldDumped(reg, attributes, attrs, rn, i, serialized, r) ==
    IF ~r.ok THEN r
    ELSE IF IsInclude(attributes[i].d) /\ ~IsMapping(r.val) THEN Raise("TypeError", {}, <<>>)
    ELSE DumpFrom(reg, attributes, attrs, rn, i + 1,
                  Serialize(serialized, attributes[i].name, attributes[i].d, r))

\* getattr(self, aname, afield.default)
Current(attrs, aname, afield) ==
    IF aname \in DOMAIN attrs THEN attrs[aname] ELSE Default(afield)

DumpFrom(reg, attributes, attrs, rn, i, serialized) ==
    IF i > Len(attributes) THEN Ok(DictV(serialized), <<>>)
    ELSE FieldDumped(reg, attributes, attrs, rn, i, serialized,
                     Dump(reg, attributes[i].d, Current(attrs, attributes[i].name, attributes[i].d), rn))

\* Attributee.dump(self)
DumpObj(reg, self, rn) == DumpFrom(reg, reg[Val(self).cls].declared, Val(self).attrs, rn, 1, EmptyMap)

\* The resname attributes after the side effects fx.
RECURSIVE ApplyFx(_, _)
ApplyFx(rn, fx) ==
    IF fx = <<>> THEN rn
    ELSE ApplyFx(IF Head(fx).ev = "resname" THEN [rn EXCEPT ![Head(fx).who] = Head(fx).what] ELSE rn,
                 Tail(fx))

FunctionObjects == {"f", "g"}
NoResnames == [f \in FunctionObjects |-> None]

\* ---------------------------------------------------------------- inputs
S1(word) == StrV(<<word>>)

\* The raw mappings with keys among those of choices, each value one of the
\* key's choices.
RawsOf(choices) ==
    UNION {{f \in [K -> UNION {choices[k] : k \in K}] : \A k \in K : f[k] \in choices[k]} :
              K \in SUBSET DOMAIN choices}

Stray == "zz" :> {IntV(1)}

CircleRaw(radius) == DictV(("type" :> S1("shapes.Circle")) @@ ("radius" :> radius))

RawChoices(c) ==
    CASE c = "Point" ->
           ("x" :> {IntV(5), StrV(<<"5">>), StrV(<<"x">>)}) @@ ("y" :> {IntV(7)}) @@ Stray
      [] c = "Derived" ->
           ("x" :> {IntV(5)}) @@ ("y" :> {StrV(<<"q">>), IntV(12)}) @@ ("z" :> {StrV(<<"4">>)})
             @@ Stray
      [] c = "Owner" ->
           ("a" :> {StrV(<<"a">>)}) @@ ("b" :> {StrV(<<"b">>), IntV(5)})
             @@ ("c" :> {StrV(<<"c">>)}) @@ ("inc" :> {IntV(1)}) @@ Stray
      [] c = "Outer" ->
           ("d" :> {IntV(5), StrV(<<"x">>)}) @@ ("m" :> {StrV(<<"q">>)}) @@ ("a" :> {BoolV(TRUE)})
             @@ ("inc" :> {IntV(1)}) @@ ("inc2" :> {IntV(1)})
      [] c = "Holder" ->
           ("n" :> {DictV(EmptyMap), DictV("b" :> StrV(<<"q">>)), DictV("zz" :> IntV(1))})
             @@ ("m" :> {DictV("x" :> IntV(5)), DictV(("x" :> IntV(5)) @@ ("y" :> IntV(7))),
                          DictV(EmptyMap), None})
      [] c = "Wrap" ->
           ("n" :> {DictV(EmptyMap)}) @@ ("x" :> {IntV(5)})
      [] c = "Defaults" ->
           ("n" :> {None, DictV(EmptyMap)})
             @@ ("tags" :> {ListV(<<>>), StrV(<<"a", ",", "b">>), ListV(<<StrV(<<"a">>)>>)})
             @@ ("cb" :> {S1("pkg.f"), S1("alias.f"), FnV("g")})
             @@ ("deprecated" :> {BoolV(TRUE), StrV(<<"t", "r", "u", "e">>)})
      [] c = "Bag" ->
           ("items" :> {StrV(<<"1", ",", "2">>), ListV(<<IntV(1), IntV(2)>>), ListV(<<>>),
                        DictV("a" :> IntV(1)), IntV(5), ListV(<<StrV(<<"x">>)>>)})
             @@ ("fn" :> {S1("pkg.f"), S1("alias.f"), S1("nope"), FnV("g")})
      [] c = "Canvas" ->
           ("title" :> {StrV(<<"t">>)})
             @@ ("m" :> {CircleRaw(IntV(5)), CircleRaw(StrV(<<"5">>)), CircleRaw(IntV(11)),
                         DictV("radius" :> IntV(5)),
                         DictV(("type" :> S1("shapes.Point")) @@ ("x" :> IntV(1))),
                         DictV("type" :> S1("pkg.f"))})
             @@ Stray
      [] c = "Stack" ->
           ("title" :> {StrV(<<"t">>)}) @@ ("dataset" :> {StrV(<<"d">>)})
             @@ ("deprecated" :> {StrV(<<"t", "r", "u", "e">>)})
             @@ ("experiments" :>
                   {DictV(EmptyMap),
                    DictV("k1" :> DictV("type" :> S1("Supervised"))),
                    DictV("k1" :> DictV(("type" :> S1("vot.experiment.Supervised")) @@ ("x" :> IntV(2)))),
                    DictV(("k1" :> DictV(("type" :> S1("vot.experiment.Supervised")) @@ ("x" :> IntV(2))))
                            @@ ("k2" :> DictV("type" :> S1("Supervised")))),
                    DictV("k1" :> CircleRaw(IntV(5))),
                    IntV(5)})
             @@ Stray
      [] c = "Grid" ->
           ("rows" :> {ListV(<<ListV(<<>>)>>), ListV(<<ListV(<<IntV(1)>>)>>)})
             @@ ("shapes" :> {ListV(<<CircleRaw(IntV(5)), CircleRaw(IntV(7))>>)})
             @@ ("cells" :> {DictV("a" :> DictV(EmptyMap)), DictV("a" :> DictV("b" :> IntV(1)))})
             @@ ("lm" :> {DictV(EmptyMap), DictV("a" :> ListV(<<IntV(1)>>))})
      [] c = "Hooks" ->
           ("first" :> {S1("pkg.f"), S1("pkg.g"), FnV("g")})
             @@ ("second" :> {S1("alias.f"), S1("pkg.f"), FnV("f"), FnV("g")})

\* The types a caller constructs directly.
Constructible ==
    {"Point", "Derived", "Owner", "Outer", "Holder", "Wrap", "Defaults", "Bag", "Canvas", "Stack",
     "Grid", "Hooks"}

\* What the subclass __init__ assigns before Attributee.__init__ runs
\* (Stack.__init__: self._workspace = workspace).
PreAttrs(c) == IF c = "Stack" THEN "_workspace" :> Workspace ELSE EmptyMap

\* The resname attributes once the schema types above have been defined.
InitialResnames == ApplyFx(NoResnames, CallableInit(ImportTable, S1("pkg.f")).fx)

\* ---------------------------------------------------------------- state
\* registry: the classes that exist once the modules are imported (never
\* reassigned).  pc .. lastKey: one construction and the record it returns.
\* tbl, defined: the class table and the class statements executed so far.
\* body, defn: the descriptors a class body has defined so far, and the last
\* definition attempted.
VARIABLES registry, pc, klass, kwargs, idx, st, result, error, resname, dumped, nassign,
          lastSet, lastKey, tbl, defined, body, defn

vars == <<registry, pc, klass, kwargs, idx, st, result, error, resname, dumped, nassign,
          lastSet, lastKey, tbl, defined, body, defn>>

NoDump == [ok |-> FALSE, val |-> None, err |-> [kind |-> "not dumped", names |-> {}], fx |-> <<>>]
NoState == [attrs |-> EmptyMap, unconsumed |-> {}, unspecified |-> {}, fx |-> <<>>, err |-> NoError]
NoDefn == [kind |-> "", given |-> Undefined, full |-> NoDesc, out |-> DefOk(NoDesc, <<>>)]

metaVars == <<tbl, defined>>
defVars == <<body, defn>>
engineVars == <<pc, klass, kwargs, idx, st, result, error, resname, dumped, nassign, lastSet,
                lastKey>>

EngineInit ==
    /\ registry = Registry
    /\ pc = "idle"
    /\ klass = ""
    /\ kwargs = EmptyMap
    /\ idx = 0
    /\ st = NoState
    /\ result = None
    /\ error = NoError
    /\ resname = InitialResnames
    /\ dumped = NoDump
    /\ nassign = 0
    /\ lastSet = ""
    /\ lastKey = ""

MetaInit == tbl = BaseTable /\ defined = <<>>

DefInit == body = <<>> /\ defn = NoDefn

Init == EngineInit /\ MetaInit /\ DefInit

\* A caller starts klass(**kwargs): Attributee.__init__ up to the loop.
Construct(c, raw) ==
    /\ pc = "idle"
    /\ pc' = "init"
    /\ klass' = c
    /\ kwargs' = raw
    /\ idx' = 1
    /\ st' = Begin(registry[c], raw, PreAttrs(c))
    /\ UNCHANGED <<registry, result, error, resname, dumped, nassign, lastSet, lastKey,
                   metaVars, defVars>>

\* One iteration of the loop; an exception in it ends the construction.
Step ==
    /\ pc = "init"
    /\ idx <= Len(registry[klass].declared)
    /\ st' = FieldStep(registry, registry[klass], kwargs, st, idx)
    /\ resname' = ApplyFx(resname, SubSeq(st'.fx, Len(st.fx) + 1, Len(st'.fx)))
    /\ IF st'.err = NoError
       THEN pc' = "init" /\ idx' = idx + 1 /\ error' = error
       ELSE pc' = "failed" /\ idx' = idx /\ error' = st'.err
    /\ UNCHANGED <<registry, klass, kwargs, result, dumped, nassign, lastSet, lastKey,
                   metaVars, defVars>>

\* The loop is over: the two checks, then the record is the caller's.
Finish ==
    /\ pc = "init"
    /\ idx > Len(registry[klass].declared)
    /\ IF Checks(st) = NoError
       THEN pc' = "done" /\ result' = ObjV(klass, st.attrs) /\ error' = error
       ELSE pc' = "failed" /\ result' = result /\ error' = Checks(st)
    /\ UNCHANGED <<registry, klass, kwargs, idx, st, resname, dumped, nassign, lastSet, lastKey,
                   metaVars, defVars>>

\* __setattr__ without the test for a declared name.
setattrUnchecked(reg, self, key, value) ==
    Ok(ObjV(Val(self).cls, Put(Val(self).attrs, key, value)), <<>>)

\* Attributee.__setattr__(key, value) on the finished record.
setattr(reg, self, key, value) ==
    IF \E i \in 1..Len(reg[Val(self).cls].declared) : reg[Val(self).cls].declared[i].name = key
    THEN Raise("AttributeException", {key}, <<>>)
    ELSE Ok(ObjV(Val(self).cls, Put(Val(self).attrs, key, value)), <<>>)

\* The names a holder of the record tries to assign: the declared field names,
\* the names of the fields an Include exposes, and an auxiliary name.
DeclaredNames(reg, c) == {reg[c].declared[i].name : i \in 1..Len(reg[c].declared)}

RECURSIVE ExposedNames(_)
ExposedNames(k) ==
    UNION {IF IsInclude(k.declared[i].d) THEN ExposedNames(k.declared[i].d.acls)
           ELSE {k.declared[i].name} : i \in 1..Len(k.declared)}

AssignKeys(reg, c) == DeclaredNames(reg, c) \cup ExposedNames(reg[c]) \cup {"aux"}

AssignValues == {IntV(9)}

SetAttr(key, value) ==
    /\ pc = "done"
    /\ nassign < MaxAssign
    /\ nassign' = nassign + 1
    /\ lastKey' = key
    /\ IF setattr(registry, result, key, value).ok
       THEN result' = setattr(registry, result, key, value).val /\ lastSet' = "ok"
       ELSE result' = result /\ lastSet' = "readonly"
    /\ UNCHANGED <<registry, pc, klass, kwargs, idx, st, error, resname, dumped,
                   metaVars, defVars>>

\* record.dump()
DumpRecord ==
    /\ pc = "done"
    /\ dumped' = DumpObj(registry, result, resname)
    /\ UNCHANGED <<registry, pc, klass, kwargs, idx, st, result, error, resname, nassign,
                   lastSet, lastKey, metaVars, defVars>>

Next ==
    \/ pc = "idle" /\ \E c \in Constructible : \E raw \in RawsOf(RawChoices(c)) : Construct(c, raw)
    \/ Step
    \/ Finish
    \/ pc = "done" /\ \E key \in AssignKeys(registry, klass) : \E value \in AssignValues :
                         SetAttr(key, value)
    \/ DumpRecord

Spec == Init /\ [][Next]_vars

\* ---------------------------------------------------------------- class statements
\* The class statements of a module, executed one after the other: the k-th
\* class is named ClassNames[k], its bases are classes defined before it (none:
\* Attributee), its body declares some of x, y with descriptors of its own, or a
\* plain method.
ClassNames == <<"A", "B", "C", "D", "E">>

Marked(k) == IntegerInit(BaseTable, NoMin, NoMax, IntV(k)).d
Method == [kind |-> "function"]

Bodies(k) ==
    {<<>>,
     <<[name |-> "x", d |-> Marked(k)]>>,
     <<[name |-> "y", d |-> Marked(k)]>>,
     <<[name |-> "y", d |-> Marked(k)], [name |-> "x", d |-> Marked(k)]>>,
     <<[name |-> "helper", d |-> Method]>>}

BasesOver(names) ==
    {<<"Attributee">>} \cup {<<a>> : a \in names} \cup {<<a, b>> : a, b \in names}

DefineClass(bases, attrs) ==
    /\ Len(defined) < MaxClasses
    /\ MroOk(tbl, ClassNames[Len(defined) + 1], bases)
    /\ tbl' = tbl @@ (ClassNames[Len(defined) + 1] :>
                         ClassStatement(tbl, ClassNames[Len(defined) + 1], bases, attrs))
    /\ defined' = Append(defined, [name |-> ClassNames[Len(defined) + 1], bases |-> bases,
                                   attrs |-> attrs])
    /\ UNCHANGED <<registry, engineVars, defVars>>

NextMeta ==
    \E bases \in BasesOver({defined[i].name : i \in 1..Len(defined)}) :
        \E attrs \in Bodies(Len(defined) + 1) : DefineClass(bases, attrs)

SpecMeta == Init /\ [][NextMeta]_vars

\* ---------------------------------------------------------------- descriptor definitions
\* The descriptor definitions of a class body, executed one after the other; an
\* exception in one ends the body.
MaxFields == 2

Defining == Len(body) < MaxFields /\ defn.out.ok

\* The definition `kind(..., default=given)` gave out; full is the same
\* descriptor defined without a default.
Defined(kind, given, full, out) ==
    /\ defn' = [kind |-> kind, given |-> given, full |-> full.d, out |-> out]
    /\ body' = IF out.ok THEN Append(body, out.d) ELSE body
    /\ UNCHANGED <<registry, engineVars, metaVars>>

IntegerDefaults == {Undefined, IntV(5), StrV(<<"5">>), StrV(<<"x">>), IntV(11)}
BooleanDefaults == {Undefined, BoolV(FALSE), StrV(<<"0">>), IntV(7)}
StringDefaults == {Undefined, StrV(<<>>), IntV(5)}
CallableDefaults == {Undefined, S1("pkg.f"), FnV("g"), S1("nope")}
ListDefaults == {Undefined, ListV(<<>>), ListV(<<IntV(1)>>), StrV(<<"1", ",", "2">>), IntV(5)}
MapDefaults == {Undefined, DictV(EmptyMap), DictV("k1" :> IntV(1)), IntV(5)}
ObjectDefaults == {Undefined, CircleRaw(IntV(5)), DictV("type" :> S1("Supervised"))}
NestedDefaults == {Undefined, None, DictV(EmptyMap), DictV("x" :> IntV(5))}
Elements == {IntegerInit(ImportTable, NoMin, NoMax, Undefined).d, StringInit(ImportTable, Undefined).d}
Resolvers == {"default_object_resolver", "experiment_resolver"}
NestedClasses == {"Opt", "Point"}

DefineInteger(given) ==
    /\ Defining
    /\ Defined("Integer", given, IntegerInit(registry, IntV(0), IntV(10), Undefined),
               IntegerInit(registry, IntV(0), IntV(10), given))

DefineBoolean(given) ==
    /\ Defining
    /\ Defined("Boolean", given, BooleanInit(registry, Undefined), BooleanInit(registry, given))

DefineString(given) ==
    /\ Defining
    /\ Defined("String", given, StringInit(registry, Undefined), StringInit(registry, given))

DefineCallable(given) ==
    /\ Defining
    /\ Defined("Callable", given, CallableInit(registry, Undefined), CallableInit(registry, given))

DefineList(contains, given) ==
    /\ Defining
    /\ Defined("List", given, ListInit(registry, contains, ",", Undefined),
               ListInit(registry, contains, ",", given))

DefineMap(contains, given) ==
    /\ Defining
    /\ Defined("Map", given, MapInit(registry, contains, Undefined),
               MapInit(registry, contains, given))

DefineObject(resolver, given) ==
    /\ Defining
    /\ Defined("Object", given, ObjectInit(registry, resolver, Undefined),
               ObjectInit(registry, resolver, given))

DefineNested(c, given) ==
    /\ Defining
    /\ Defined("Nested", given, NestedInit(registry, registry[c], Undefined),
               NestedInit(registry, registry[c], given))

DefineInclude(c) ==
    /\ Defining
    /\ Defined("Include", Undefined, IncludeInit(registry, registry[c]),
               IncludeInit(registry, registry[c]))

NextDef ==
    \/ \E given \in IntegerDefaults : DefineInteger(given)
    \/ \E given \in BooleanDefaults : DefineBoolean(given)
    \/ \E given \in StringDefaults : DefineString(given)
    \/ \E given \in CallableDefaults : DefineCallable(given)
    \/ \E contains \in Elements : \E given \in ListDefaults : DefineList(contains, given)
    \/ \E contains \in Elements : \E given \in MapDefaults : DefineMap(contains, given)
    \/ \E resolver \in Resolvers : \E given \in ObjectDefaults : DefineObject(resolver, given)
    \/ \E c \in NestedClasses : \E given \in NestedDefaults : DefineNested(c, given)
    \/ \E c \in NestedClasses : DefineInclude(c)

SpecDef == Init /\ [][NextDef]_vars

\* ---------------------------------------------------------------- properties
\* Vocabulary of the properties below, all about the construction klass(**kwargs).
Ended == pc \in {"failed", "done"}
LoopDone == idx > Len(registry[klass].declared)
FieldAt == registry[klass].declared[idx]

Missing(names) == [kind |-> "MissingArguments", names |-> names]
Unsupported(names) == [kind |-> "UnsupportedArguments", names |-> names]

\* The fields a caller of k sees: k's own and, in its place, those an Include exposes.
RECURSIVE Exposed(_)
Exposed(k) ==
    Flatten([i \in 1..Len(k.declared) |->
                IF IsInclude(k.declared[i].d) THEN Exposed(k.declared[i].d.acls)
                ELSE <<k.declared[i]>>])

\* The required fields the raw mapping does not carry, and the raw keys that
\* are neither a declared field name nor the name of an exposed field.
RequiredNames(k) == {a.name : a \in {b \in Range(Exposed(k)) : Required(b.d)}}
AbsentRequired == RequiredNames(registry[klass]) \ DOMAIN kwargs
Unclaimed == DOMAIN kwargs \ (DeclaredNames(registry, klass) \cup ExposedNames(registry[klass]))

\* The failure was raised by the type's own checks or by one of its Includes.
AtOwnLevel == LoopDone \/ IsInclude(FieldAt.d)

\* C1: whenever a required field is absent (fields exposed through an Include
\* counted as the owner's) construction fails, and a missing-arguments failure of
\* the type itself or of one of its Includes names exactly the absent required fields.
C1_MissingNamesAllAbsent ==
    Ended =>
        /\ (AbsentRequired # {} => pc = "failed")
        /\ (pc = "failed" /\ error.kind = "MissingArguments" /\ AtOwnLevel
               => error.names = AbsentRequired)

\* Owner() is reported as missing b alone, although a is absent as well.
C1_Witness ==
    pc = "failed" /\ klass = "Owner" /\ kwargs = EmptyMap /\ error = Missing({"b"})

ScalarKinds == {"Number", "Boolean", "String", "Callable"}

DumpOf(d, r) == IF r.ok THEN Dump(registry, d, r.val, ApplyFx(resname, r.fx)) ELSE r
CoerceThenDump(d, v) ==
    DumpOf(d, Coerce(registry, d, v, ParentCtx(ObjV(klass, PreAttrs(klass)))))

\* A well-formed raw mapping: every key is a field and every value is already
\* in the form dump gives it.
WellFormed ==
    /\ DOMAIN kwargs \subseteq ExposedNames(registry[klass])
    /\ \A a \in Range(Exposed(registry[klass])) :
          a.name \in DOMAIN kwargs => CoerceThenDump(a.d, kwargs[a.name]) = Ok(kwargs[a.name], <<>>)

\* The raw mapping with every omitted field replaced by its default.
Materialized ==
    [n \in ExposedNames(registry[klass]) |->
        IF n \in DOMAIN kwargs THEN kwargs[n]
        ELSE Dump(registry, (CHOOSE a \in Range(Exposed(registry[klass])) : a.name = n).d,
                  Default((CHOOSE a \in Range(Exposed(registry[klass])) : a.name = n).d),
                  resname).val]

DumpAgain(r) == IF r.ok THEN DumpObj(registry, r.val, ApplyFx(resname, r.fx)) ELSE r
Redump == DumpAgain(New(registry, registry[klass], Val(dumped.val), PreAttrs(klass)))

\* C4: the dump of a record constructed from a well-formed raw mapping succeeds,
\* equals the raw mapping with the omitted fields replaced by their defaults, and
\* constructing again from that dump gives the same dump.
C4_RoundTrip ==
    (pc = "done" /\ dumped # NoDump /\ WellFormed) =>
        /\ dumped.ok
        /\ dumped.val = DictV(Materialized)
        /\ Redump = dumped

\* A record whose optional Nested field was omitted cannot be dumped.
C4_Witness ==
    /\ pc = "done" /\ klass = "Holder" /\ "n" \notin DOMAIN kwargs /\ WellFormed
    /\ ~dumped.ok /\ dumped.err.kind = "AttributeError"

Bound(r, n) == IF n \in DOMAIN Val(r).attrs THEN <<TRUE, Val(r).attrs[n]>> ELSE <<FALSE, None>>

\* C5: on a constructed record an assignment is refused as read-only exactly when
\* the name is a declared field (inherited fields and Include fields included);
\* no assignment, refused or not, changes a declared field's value or the dump;
\* an assignment of any other name takes effect.
C5_ReadOnly ==
    [][(pc = "done" /\ nassign' = nassign + 1) =>
          /\ lastSet' \in {"readonly", "ok"}
          /\ (lastSet' = "readonly") <=> (lastKey' \in DeclaredNames(registry, klass))
          /\ \A n \in DeclaredNames(registry, klass) : Bound(result', n) = Bound(result, n)
          /\ DumpObj(registry, result', resname) = DumpObj(registry, result, resname)
          /\ (lastSet' = "ok" => lastKey' \in DOMAIN Val(result').attrs)]_vars

\* The second of two assignments to a record, refused for an inherited field.
C5_Witness ==
    /\ pc = "done" /\ nassign = MaxAssign /\ klass = "Derived"
    /\ lastKey = "x" /\ lastSet = "readonly"

\* The calls of a resolver that was handed the record under construction.
ParentSeen ==
    {e \in Range(st.fx) : e.ev = "resolve" /\ e.hasParent}

\* C6 as stated: no resolver ever receives a record in which only some of the
\* declared fields are bound.
C6_NoPartialObserved ==
    \A e \in ParentSeen : DeclaredNames(registry, e.cls) \subseteq e.bound

\* Every record in v, v included, has all its declared fields bound.
RECURSIVE FullyBound(_)
FullyBound(v) ==
    CASE Tag(v) = "obj" ->
            /\ DeclaredNames(registry, Val(v).cls) \subseteq DOMAIN Val(v).attrs
            /\ \A n \in DOMAIN Val(v).attrs : FullyBound(Val(v).attrs[n])
      [] Tag(v) = "list" -> \A i \in 1..Len(Val(v)) : FullyBound(Val(v)[i])
      [] Tag(v) = "romap" -> \A k \in DOMAIN Val(v) : FullyBound(Val(v)[k])
      [] OTHER -> TRUE

\* From some field on, no field of its type is bound in the record e shows.
LaterUnbound(e) ==
    \E i \in 1..Len(registry[e.cls].declared) :
        \A j \in i..Len(registry[e.cls].declared) : registry[e.cls].declared[j].name \notin e.bound

\* C6 as the code has it: a failing construction returns no record, and a
\* returned record has every declared field bound, in it and in every record it
\* holds; but a resolver called during the construction is handed, as the
\* context's parent, the record under construction, in which the field being
\* coerced and every field after it are not bound yet.
C6_AtomicOutside ==
    /\ pc = "failed" => result = None /\ dumped = NoDump
    /\ pc = "done" => FullyBound(result)
    /\ \A e \in ParentSeen : LaterUnbound(e)

\* experiment_resolver was handed a Stack whose experiments field is not bound.
C6_Witness ==
    /\ pc = "done" /\ klass = "Stack"
    /\ \E e \in ParentSeen :
          /\ e.who = "experiment_resolver" /\ e.cls = "Stack"
          /\ e.bound = {"_workspace", "title", "dataset", "deprecated"}

\* The descriptor the closest class of the MRO gives name f in its own body.
OwnFields(n) ==
    IF \E s \in Range(defined) : s.name = n
    THEN get_fields((CHOOSE s \in Range(defined) : s.name = n).attrs)
    ELSE <<>>
Declares(n, f) == \E a \in Range(OwnFields(n)) : a.name = f
MostDerived(mro, f) ==
    (CHOOSE a \in Range(OwnFields(mro[MinOf({j \in 1..Len(mro) : Declares(mro[j], f)})])) :
        a.name = f).d

\* C7: the merged fields of every class are the names declared along its MRO,
\* each with the descriptor of the most-derived class that declares it.
C7_MostDerivedWins ==
    \A s \in Range(defined) :
        /\ {a.name : a \in Range(tbl[s.name].declared)}
              = {f \in {"x", "y"} : \E j \in 1..Len(tbl[s.name].mro) : Declares(tbl[s.name].mro[j], f)}
        /\ \A a \in Range(tbl[s.name].declared) : a.d = MostDerived(tbl[s.name].mro, a.name)

\* D(B, C) with B(A), C(A): C redeclares A's x, and D gets A's descriptor.
C7_Witness ==
    /\ Len(defined) = 4
    /\ defined[2].bases = <<"A">> /\ defined[3].bases = <<"A">> /\ defined[4].bases = <<"B", "C">>
    /\ Declares("A", "x") /\ ~Declares("B", "x") /\ Declares("C", "x") /\ ~Declares("D", "x")
    /\ \E a \in Range(tbl["D"].declared) : a.name = "x" /\ a.d = Marked(1)

\* The type that declares an Include's fields directly in the Include's place.
Twin == ("Owner" :> "OwnerFlat") @@ ("Outer" :> "OuterFlat")

IncludeNames(k) == {a.name : a \in {b \in Range(k.declared) : IsInclude(b.d)}}

SameOutcome(t) ==
    /\ (pc = "done") <=> t.ok
    /\ (pc = "failed" => error = t.err)
    /\ (pc = "done" /\ t.ok =>
           DumpObj(registry, ObjV(klass, st.attrs), resname) = DumpObj(registry, t.val, resname))

\* C8: a type with an Include and the type that declares the same fields
\* directly accept the same raw mappings, fail on the same ones with the same
\* named fields and dump the same; the dump has no entry under the Include's name.
C8_IncludeTransparent ==
    (Ended /\ klass \in DOMAIN Twin) =>
        /\ SameOutcome(New(registry, registry[Twin[klass]], kwargs, EmptyMap))
        /\ (dumped.ok => IncludeNames(registry[klass]) \cap DOMAIN Val(dumped.val) = {})

\* A raw key equal to the Include's own name is accepted and dropped.
C8_Witness ==
    /\ pc = "done" /\ klass = "Owner" /\ "inc" \in DOMAIN kwargs
    /\ ~New(registry, registry["OwnerFlat"], kwargs, EmptyMap).ok

HasDefault(d) == ~IsInclude(d) /\ ~is_undefined(d.default)

\* C9: a field declared with a default and omitted from the raw mapping never
\* makes the construction fail, and is bound to the descriptor's default.
C9_DefaultsBind ==
    /\ (pc = "failed" /\ ~LoopDone) => ~(HasDefault(FieldAt.d) /\ FieldAt.name \notin DOMAIN kwargs)
    /\ pc = "done" =>
          \A a \in Range(registry[klass].declared) :
              (HasDefault(a.d) /\ a.name \notin DOMAIN kwargs)
                  => a.name \in DOMAIN st.attrs /\ st.attrs[a.name] = Default(a.d)

\* Wrap() fails on its Nested field, which has a default.
C9_Witness ==
    /\ pc = "failed" /\ klass = "Wrap" /\ "n" \notin DOMAIN kwargs
    /\ FieldAt.name = "n" /\ error.kind = "AssertionError"

\* C10: a definition whose default the fully configured descriptor coerces
\* succeeds, and stores what that coercion gives.
C10_DefaultByConfigured ==
    (defn.kind # "" /\ ~is_undefined(defn.given)
        /\ Coerce(registry, defn.full, defn.given, EmptyCtx).ok)
      => /\ defn.out.ok
         /\ defn.out.d.default = Coerce(registry, defn.full, defn.given, EmptyCtx).val

\* Map(Integer(), default={"k1": 1}) raises AttributeError.
C10_Witness ==
    /\ defn.kind = "Map" /\ defn.given = DictV("k1" :> IntV(1))
    /\ ~defn.out.ok /\ defn.out.err.kind = "AttributeError"

\* The calls of a resolver made so far by the construction: what each was handed
\* as its context.
ResolverCalls == {st.fx[i] : i \in {j \in 1..Len(st.fx) : st.fx[j].ev = "resolve"}}

\* The positions of the values an Object descriptor coerces below the field
\* aname: the field itself, the items of a List of objects, the values of a Map
\* of objects.
PositionsIn(aname, d, value) ==
    IF d.kind = "Object" THEN {NameKey(aname)}
    ELSE IF d.kind = "List" /\ d.contains.kind = "Object" /\ IsIterable(value)
         THEN {IdxKey(i - 1) : i \in 1..Len(ListItems(d, value))}
    ELSE IF d.kind = "Map" /\ d.contains.kind = "Object" /\ IsMapping(value)
         THEN {NameKey(k) : k \in DOMAIN Val(value)}
    ELSE {}

ExpectedKeys ==
    UNION {PositionsIn(a.name, a.d, kwargs[a.name]) :
              a \in {b \in Range(registry[klass].declared) : b.name \in DOMAIN kwargs}}

\* A List or Map whose elements are Lists or Maps.
IsNested(d) == d.kind \in {"List", "Map"} /\ d.contains.kind \in {"List", "Map"}

ParentIsSelf == \A e \in ResolverCalls : e.hasParent /\ e.cls = klass
KeyIsPosition == \A e \in ResolverCalls : e.hasKey /\ e.key \in ExpectedKeys
\* The same for a type whose objects are all items of a List or values of a Map,
\* and what a type whose objects are all directly declared fields hands over.
DirectObjects == \E a \in Range(registry[klass].declared) : a.d.kind = "Object"
ItemKeyIsPosition == ~DirectObjects => KeyIsPosition
ObjectItems ==
    \E a \in Range(registry[klass].declared) :
        a.d.kind \in {"List", "Map"} /\ a.d.contains.kind = "Object"
DirectHasNoKey == ~ObjectItems => \A e \in ResolverCalls : ~e.hasKey
NestedCoerced ==
    ~(pc = "failed" /\ ~LoopDone /\ IsNested(FieldAt.d) /\ error.kind = "TypeError")

\* C11: every resolver called during a construction is handed the record under
\* construction as parent and the value's position (field name, List index,
\* Map key) as key, and a List or Map nested in a List or Map is coerced
\* without the context failing it.
C11_ContextPositions == pc # "idle" => ParentIsSelf /\ KeyIsPosition /\ NestedCoerced

\* A List of Lists with an item in the inner List has been coerced.
C11_Witness ==
    /\ Ended /\ klass = "Grid" /\ "rows" \in DOMAIN kwargs
    /\ kwargs["rows"] = ListV(<<ListV(<<IntV(1)>>)>>)

\* The Callable fields of klass the raw mapping supplies.
SuppliedCallables ==
    {a \in Range(registry[klass].declared) : a.d.kind = "Callable" /\ a.name \in DOMAIN kwargs}

\* What the record's dump holds for the field a.
DumpedAt(a) == Val(dumped.val)[a.name]

\* The field a was supplied as a name string and dumps to that string.
NameKept(a) == Tag(kwargs[a.name]) = "str" => DumpedAt(a) = kwargs[a.name]

\* The field a was supplied as a callable that no coercion has resolved from a
\* name, and dumps to the callable's qualified name.
ObjectNamed(a) ==
    (Tag(kwargs[a.name]) = "fn" /\ resname[Val(kwargs[a.name])] = None)
        => DumpedAt(a) = function_fullname(Val(kwargs[a.name]))

\* C12: a Callable value coerced from a name string dumps to that same string
\* whatever else has been coerced, another name of the same callable included;
\* a callable supplied as an object and never coerced from a name dumps to its
\* qualified name.
C12_NameFidelity == dumped.ok => \A a \in SuppliedCallables : NameKept(a) /\ ObjectNamed(a)

\* A record of two Callable fields, coerced from two names of one callable, has been dumped.
C12_Witness ==
    /\ dumped.ok /\ klass = "Hooks" /\ DOMAIN kwargs = {"first", "second"}
    /\ kwargs["first"] = S1("pkg.f") /\ kwargs["second"] = S1("alias.f")


====
